---- MODULE Spec2Model ----
(***************************************************************************)
(* Order matching service (internal/service/matching.go) together with the *)
(* MySQL repository it writes through (internal/repository/mysql.go).      *)
(*                                                                         *)
(* In-memory state: the order book (Bids, Asks: symbol -> slice of price   *)
(* levels, each level a slice of pointers to Order objects) guarded by one *)
(* mutex.  Persistent state: the orders and trades tables.  Prices and     *)
(* quantities are float64 in the source; the model draws them from small   *)
(* ranges of integers (whole multiples of one tick / one lot).             *)
(*                                                                         *)
(* A call is modelled in the steps other goroutines can tell apart:        *)
(* invocation, mutex.Lock, the body up to its return statement, the        *)
(* deferred tx.Rollback, the deferred mutex.Unlock.  The body runs with    *)
(* the mutex held and its store writes are inside one transaction, so it   *)
(* is one step; which store operation fails (if any) is an input of it.    *)
(***************************************************************************)
EXTENDS Integers, Sequences, FiniteSets, TLC

\* ---- bounds of the model ------------------------------------------------
MaxCalls == 2       \* PlaceOrder and CancelOrder calls after start-up
MaxCallsFromEmpty == 3  \* the same, when the store starts empty
MaxPriceFromEmpty == 1  \* and the prices of those calls
MaxSeed == 3        \* open orders in the store at start-up
MaxSeedQty == 2     \* their quantity
MaxPrice == 3
MaxQty == 3
NumCallers == 2
MaxCallsRace == 4   \* calls of concurrent callers, unit orders at one price
MaxQtyRace == 1
MaxID == 3          \* the values uuid.New().ID() takes, when its order matters

Callers == 1..NumCallers
Symbols == {"BTC-USD", "ETH-USD"}
Sides == {"buy", "sell"}
Types == {"limit", "market"}

\* sql.NullFloat64
NullPrice == [Valid |-> FALSE, Float64 |-> 0]
ValidPrice(p) == [Valid |-> TRUE, Float64 |-> p]

\* The orders the handler builds from request bodies (handlers.go 44-56): a
\* limit order carries the request's price, a market order none.  A limit
\* order without a price and a market order with one exercise lines 73, 78.
RequestsFor(symbols, maxPrice) ==
    [Symbol : symbols, Side : Sides, Type : {"limit"},
     Price : {NullPrice} \cup {ValidPrice(p) : p \in 0..maxPrice},
     Quantity : 0..MaxQty]
    \cup
    [Symbol : symbols, Side : Sides, Type : {"market"},
     Price : {NullPrice, ValidPrice(maxPrice)},
     Quantity : 0..MaxQty]

\* A local variable, x := e: e is computed once and F reads its value.
Eval(e, F(_)) == CHOOSE r \in {F(x) : x \in {e}} : TRUE

min(a, b) == IF a < b THEN a ELSE b

\* ---- the persistent store ------------------------------------------------
\* a row of table orders, as SaveOrderTx inserts it
OrderRow(o) == o

\* UPDATE orders SET remaining_quantity = ?, status = ? WHERE order_id = ?
\* (an UPDATE that matches no row is not an error)
UpdateOrderTx(rows, o) ==
    IF o.OrderID \in DOMAIN rows
      THEN [rows EXCEPT ![o.OrderID] =
              [@ EXCEPT !.RemainingQuantity = o.RemainingQuantity,
                        !.Status = o.Status]]
      ELSE rows

\* INSERT INTO orders: order_id is the PRIMARY KEY
SaveOrderTx(rows, o) == (o.OrderID :> OrderRow(o)) @@ rows

\* The tables declare CHECK constraints.  The README asks for "MySQL 8.0
\* or higher": a server from 8.0.16 on enforces them, an earlier 8.0
\* server parses and ignores them.  checks says which one the store is.

\* INSERT INTO trades: both order ids are FOREIGN KEYs into orders, and
\* the table has CHECK (price > 0), CHECK (quantity > 0)
TradeRowOk(rows, t, checks) ==
    /\ t.BuyOrderID \in DOMAIN rows /\ t.SellOrderID \in DOMAIN rows
    /\ checks => (t.Price > 0 /\ t.Quantity > 0)

\* the CHECK constraints of table orders
OrderRowOk(o) ==
    /\ o.InitialQuantity >= 0 /\ o.RemainingQuantity >= 0
    /\ (~o.Price.Valid \/ o.Price.Float64 > 0)
    /\ o.RemainingQuantity <= o.InitialQuantity

\* the UPDATE of UpdateOrderTx succeeds: the row it changes, if there is
\* one, still meets the CHECK constraints
UpdateOk(rows, o, checks) ==
    (checks /\ o.OrderID \in DOMAIN rows) => OrderRowOk(UpdateOrderTx(rows, o)[o.OrderID])

\* mutant: the writes bypass the transaction (db.Exec for tx.Exec)
Uncommitted_Leak(committed, written) == written

\* What the other connections see of the tables while a transaction that
\* wrote to them is open, and after it is rolled back: the committed rows.
Uncommitted(committed, written) == committed

\* SELECT ... FROM orders WHERE symbol = ? AND status = 'open'
RepoGetOrderBook(rows, symbol) ==
    {rows[i] : i \in {j \in DOMAIN rows :
                        rows[j].Symbol = symbol /\ rows[j].Status = "open"}}

\* SELECT ... FROM trades WHERE symbol = ?
RECURSIVE RepoGetTrades(_, _)
RepoGetTrades(trades, symbol) ==
    IF trades = <<>> THEN <<>>
    ELSE (IF Head(trades).Symbol = symbol THEN <<Head(trades)>> ELSE <<>>)
         \o RepoGetTrades(Tail(trades), symbol)

\* SELECT ... FROM orders WHERE order_id = ?
NoRow == [OrderID |-> 0]
RepoGetOrder(rows, id) == IF id \in DOMAIN rows THEN rows[id] ELSE NoRow

\* ---- slices of the order book -------------------------------------------
\* A side of one symbol is a Go slice of *OrderBookEntry and every entry
\* holds a slice of *Order.  While a match runs, the loops range over slice
\* headers taken before removeFromOrderBook shifts the shared backing
\* arrays, so the backing arrays are explicit:
\*   arr  : backing array of the side (entries named by their price)
\*   mlen : length of the slice the map holds now (side[symbol])
\*   ent  : price -> [arr: backing array of entry.Orders (objects named by
\*                         CreatedAt), len: length of entry.Orders now]
\*   obj  : CreatedAt -> the Order object
PricesOf(levels) == {levels[i].Price : i \in 1..Len(levels)}
LevelAt(levels, p) == levels[CHOOSE i \in 1..Len(levels) : levels[i].Price = p]
OrdersOf(levels) ==
    UNION {{levels[i].Orders[k] : k \in 1..Len(levels[i].Orders)} : i \in 1..Len(levels)}

ToSlices(levels) ==
    [arr  |-> [i \in 1..Len(levels) |-> levels[i].Price],
     mlen |-> Len(levels),
     ent  |-> [p \in PricesOf(levels) |->
                 [arr |-> [k \in 1..Len(LevelAt(levels, p).Orders) |->
                             LevelAt(levels, p).Orders[k].CreatedAt],
                  len |-> Len(LevelAt(levels, p).Orders)]],
     obj  |-> [h \in {o.CreatedAt : o \in OrdersOf(levels)} |->
                 CHOOSE o \in OrdersOf(levels) : o.CreatedAt = h]]

\* what the map holds: side[symbol], entries and orders up to their lengths
FromSlices(S) ==
    [i \in 1..S.mlen |->
       [Price  |-> S.arr[i],
        Orders |-> [k \in 1..S.ent[S.arr[i]].len |-> S.obj[S.ent[S.arr[i]].arr[k]]]]]

\* append(s[:j], s[j+1:]...) on a slice of length len over backing array a:
\* elements j+1..len move down one place, the old last element stays behind
DeleteAt(a, len, j) ==
    [k \in 1..Len(a) |-> IF k >= j /\ k < len THEN a[k + 1] ELSE a[k]]

FirstIndex(n, P(_)) ==
    IF \E i \in 1..n : P(i)
      THEN CHOOSE i \in 1..n : P(i) /\ \A j \in 1..(i - 1) : ~P(j)
      ELSE 0

removeFromOrderBook(side, order) ==
    Eval(side, LAMBDA S :
    LET i == FirstIndex(S.mlen, LAMBDA x : S.arr[x] = order.Price.Float64)
    IN  IF i = 0 THEN S
        ELSE
          LET p == S.arr[i]
              e == S.ent[p]
              j == FirstIndex(e.len, LAMBDA x : S.obj[e.arr[x]].OrderID = order.OrderID)
          IN  IF j = 0 THEN S
              ELSE
                LET S1 == [S EXCEPT !.ent[p] = [arr |-> DeleteAt(e.arr, e.len, j),
                                                len |-> e.len - 1]]
                IN  IF e.len - 1 = 0
                      THEN [S1 EXCEPT !.arr = DeleteAt(S.arr, S.mlen, i),
                                      !.mlen = S.mlen - 1]
                      ELSE S1)

\* an insertion at the head of the level
addToOrderBook_AtHead(levels, order) ==
    LET i == FirstIndex(Len(levels), LAMBDA x : levels[x].Price = order.Price.Float64)
    IN  IF i # 0
          THEN [levels EXCEPT ![i].Orders = <<order>> \o @]
          ELSE Append(levels, [Price |-> order.Price.Float64, Orders |-> <<order>>])

addToOrderBook(levels, order) ==
    LET i == FirstIndex(Len(levels), LAMBDA x : levels[x].Price = order.Price.Float64)
    IN  IF i # 0
          THEN [levels EXCEPT ![i].Orders = Append(@, order)]
          ELSE Append(levels, [Price |-> order.Price.Float64, Orders |-> <<order>>])

\* sort.Slice(oppositeSide, ...): the prices of a side are pairwise distinct
RECURSIVE sortSlice(_, _)
sortSlice(levels, desc) ==
    IF levels = <<>> THEN <<>>
    ELSE
      LET b == CHOOSE i \in 1..Len(levels) : \A j \in 1..Len(levels) :
                 IF desc THEN levels[i].Price >= levels[j].Price
                         ELSE levels[i].Price <= levels[j].Price
      IN  <<levels[b]>> \o
          sortSlice([k \in 1..(Len(levels) - 1) |->
                       IF k < b THEN levels[k] ELSE levels[k + 1]], desc)

\* ---- matching ---------------------------------------------------------
\* The state of one matchLimitOrder / matchMarketOrder call: the slices of
\* the opposite side, plus
\*   rem    : remainingQty          trades : the trades appended so far
\*   rows   : table orders as the open transaction sees it
\*   ops    : store operations issued so far by this PlaceOrder call
\*            (BeginTx is the first, SaveOrderTx the second)
\*   err    : a store operation failed (the function returns nil, 0, err)
\*   events : one record per match: the two orders and the opposite side
\*            as the map held it, all just before the match (history,
\*            read by the properties)
\* a trade struck at the incoming order's own price
NewTrade_TakerPrice(order, resting, matchQty) ==
    IF order.Side = "sell"
      THEN [Symbol |-> order.Symbol, BuyOrderID |-> resting.OrderID,
            SellOrderID |-> order.OrderID, Price |-> order.Price.Float64,
            Quantity |-> matchQty]
      ELSE [Symbol |-> order.Symbol, BuyOrderID |-> order.OrderID,
            SellOrderID |-> resting.OrderID, Price |-> order.Price.Float64,
            Quantity |-> matchQty]

\* models.Trade{...} of lines 174-182 and 233-241
NewTrade(order, resting, matchQty) ==
    IF order.Side = "sell"
      THEN [Symbol |-> order.Symbol, BuyOrderID |-> resting.OrderID,
            SellOrderID |-> order.OrderID, Price |-> resting.Price.Float64,
            Quantity |-> matchQty]
      ELSE [Symbol |-> order.Symbol, BuyOrderID |-> order.OrderID,
            SellOrderID |-> resting.OrderID, Price |-> resting.Price.Float64,
            Quantity |-> matchQty]

\* restingOrder.RemainingQuantity -= matchQty; filled when it reaches 0
FillResting(resting, matchQty) ==
    [resting EXCEPT !.RemainingQuantity = @ - matchQty,
                    !.Status = IF resting.RemainingQuantity - matchQty = 0
                                 THEN "filled" ELSE @]

\* for _, restingOrder := range entry.Orders { ... }: k is the loop index,
\* n the length entry.Orders had when the loop began
RECURSIVE matchOrders(_, _, _, _, _, _)
matchOrders(M, order, failAt, p, k, n) ==
    IF k > n \/ M.rem = 0 \/ M.err THEN M
    ELSE
      LET h == M.ent[p].arr[k]
          resting == M.obj[h]
          matchQty == min(M.rem, resting.RemainingQuantity)
          filled == FillResting(resting, matchQty)
          M1 == [M EXCEPT !.trades = Append(@, NewTrade(order, resting, matchQty)),
                          !.rem = @ - matchQty,
                          !.obj[h] = filled,
                          !.ops = @ + 1,
                          !.events = Append(@, [order |-> [order EXCEPT !.RemainingQuantity = M.rem],
                                                resting |-> resting,
                                                Quantity |-> matchQty,
                                                levels |-> FromSlices(M)])]
      IN  IF failAt = M1.ops \/ ~UpdateOk(M.rows, filled, M.checks)
            THEN [M1 EXCEPT !.err = TRUE]
            ELSE Eval(removeFromOrderBook([M1 EXCEPT !.rows = UpdateOrderTx(@, filled)],
                                          filled),
                      LAMBDA M2 : matchOrders(M2, order, failAt, p, k + 1, n))

\* no price filter: every level is matched against
NotMarketable_Never(order, price) == FALSE

\* the price filter of matchLimitOrder (lines 163-166)
NotMarketable(order, price) ==
    \/ order.Side = "buy" /\ price > order.Price.Float64
    \/ order.Side = "sell" /\ price < order.Price.Float64

\* for _, entry := range oppositeSide { ... }: i is the loop index, n the
\* length of oppositeSide
RECURSIVE matchLevels(_, _, _, _, _, _)
matchLevels(M, order, failAt, filter, i, n) ==
    IF i > n \/ M.rem = 0 \/ M.err THEN M
    ELSE
      LET p == M.arr[i]
      IN  IF filter /\ NotMarketable(order, p)
            THEN matchLevels(M, order, failAt, filter, i + 1, n)
            ELSE Eval(matchOrders(M, order, failAt, p, 1, M.ent[p].len),
                      LAMBDA M2 : matchLevels(M2, order, failAt, filter, i + 1, n))

MatchInit(order, levels, rows, ops, checks) ==
    LET S == ToSlices(sortSlice(levels, order.Side = "sell"))
    IN  [arr |-> S.arr, mlen |-> S.mlen, ent |-> S.ent, obj |-> S.obj,
         rem |-> order.RemainingQuantity, trades |-> <<>>, rows |-> rows,
         ops |-> ops, checks |-> checks, err |-> FALSE, events |-> <<>>]

matchLimitOrder(order, failAt, levels, rows, ops, checks) ==
    Eval(MatchInit(order, levels, rows, ops, checks),
         LAMBDA M : matchLevels(M, order, failAt, TRUE, 1, Len(levels)))

matchMarketOrder(order, failAt, levels, rows, ops, checks) ==
    Eval(MatchInit(order, levels, rows, ops, checks),
         LAMBDA M : matchLevels(M, order, failAt, FALSE, 1, Len(levels)))

\* PlaceOrder lines 109-114: the order after matching
UpdateStatus(order, remainingQty) ==
    [order EXCEPT !.RemainingQuantity = remainingQty,
                  !.Status = IF remainingQty = 0 THEN "filled"
                             ELSE IF order.Type = "market" THEN "canceled"
                             ELSE @]

\* ---- PlaceOrder, from after mutex.Lock to its return statement ---------
\* req: the order the handler built; id: uuid.New().ID(); now: time.Now();
\* failAt: which store operation of the call fails (0: none).  B, A: the
\* book; rows, trs: the committed tables.  The result holds the book and
\* the committed tables afterwards, the returned error and trades, the
\* caller's order object and the state of the transaction.
\* a validation that does not look at the price
InvalidOrder_NoPrice(o) == o.Symbol = "" \/ o.InitialQuantity <= 0

\* PlaceOrder lines 69-76
InvalidOrder(o) ==
    \/ o.Symbol = "" \/ o.InitialQuantity <= 0
    \/ o.Type = "limit" /\ (~o.Price.Valid \/ o.Price.Float64 <= 0)

\* an error return that hands back the trades made so far
ErrTrades_Partial(trades) == trades

\* return nil, err: the trades made so far are dropped
ErrTrades(trades) == <<>>

PlaceOrder(req, id, now, failAt, B, A, rows, trs, checks) ==
    LET order0 == [OrderID |-> id, Symbol |-> req.Symbol, Side |-> req.Side,
                   Type |-> req.Type, Price |-> req.Price,
                   InitialQuantity |-> req.Quantity,
                   RemainingQuantity |-> req.Quantity,
                   Status |-> "open", CreatedAt |-> now]
        order == IF order0.Type = "market"
                   THEN [order0 EXCEPT !.Price = NullPrice] ELSE order0
        Out(B1, A1, rows1, trs1, err, trades, o, events, tx, ops) ==
            [Bids |-> B1, Asks |-> A1, dbOrders |-> rows1, dbTrades |-> trs1,
             err |-> err, trades |-> trades, order |-> o, events |-> events,
             tx |-> tx, ops |-> ops]
    IN
    IF InvalidOrder(order0)
      THEN Out(B, A, rows, trs, "ErrInvalidOrder", ErrTrades(<<>>), order0, <<>>, "none", 0)
    ELSE IF failAt = 1                                   \* BeginTx
      THEN Out(B, A, rows, trs, "ErrStore", ErrTrades(<<>>), order, <<>>, "none", 1)
    ELSE IF failAt = 2 \/ id \in DOMAIN rows \/ (checks /\ ~OrderRowOk(order))   \* SaveOrderTx
      THEN Out(B, A, rows, trs, "ErrStore", ErrTrades(<<>>), order, <<>>, "open", 2)
    ELSE
      LET opposite == IF order.Side = "sell" THEN B[order.Symbol] ELSE A[order.Symbol]
          rows1 == SaveOrderTx(rows, order)
      IN
      Eval(IF order.Type = "market"
             THEN matchMarketOrder(order, failAt, opposite, rows1, 2, checks)
             ELSE matchLimitOrder(order, failAt, opposite, rows1, 2, checks),
           LAMBDA M :
      LET \* the book after matching: removeFromOrderBook wrote side[symbol]
          B1 == IF order.Side = "sell" THEN [B EXCEPT ![order.Symbol] = FromSlices(M)] ELSE B
          A1 == IF order.Side = "sell" THEN A ELSE [A EXCEPT ![order.Symbol] = FromSlices(M)]
          done == UpdateStatus(order, M.rem)
          rows2 == UpdateOrderTx(M.rows, done)
          nTrades == Len(M.trades)
          \* the first SaveTradeTx that fails, 0 if none does
          badTrade == FirstIndex(nTrades, LAMBDA k :
                         failAt = M.ops + 1 + k \/ ~TradeRowOk(rows2, M.trades[k], checks))
          saved == IF badTrade = 0 THEN M.trades ELSE SubSeq(M.trades, 1, badTrade - 1)
          rests == done.Type = "limit" /\ done.Status = "open"
          B2 == IF rests /\ done.Side = "buy"
                  THEN [B1 EXCEPT ![done.Symbol] = addToOrderBook(@, done)] ELSE B1
          A2 == IF rests /\ done.Side = "sell"
                  THEN [A1 EXCEPT ![done.Symbol] = addToOrderBook(@, done)] ELSE A1
      IN
      IF M.err                                           \* UpdateOrderTx(restingOrder)
        THEN Out(B1, A1, Uncommitted(rows, M.rows), trs, "ErrStore", ErrTrades(M.trades), order,
                 M.events, "open", M.ops)
      ELSE IF failAt = M.ops + 1 \/ ~UpdateOk(M.rows, done, checks)   \* UpdateOrderTx(order)
        THEN Out(B1, A1, Uncommitted(rows, M.rows), trs, "ErrStore", ErrTrades(M.trades), done,
                 M.events, "open", M.ops + 1)
      ELSE IF badTrade # 0                               \* SaveTradeTx
        THEN Out(B1, A1, Uncommitted(rows, rows2), Uncommitted(trs, trs \o saved),
                 "ErrStore", ErrTrades(M.trades), done, M.events, "open", M.ops + 1 + badTrade)
      ELSE IF failAt = M.ops + 1 + nTrades + 1           \* tx.Commit
        THEN Out(B2, A2, Uncommitted(rows, rows2), Uncommitted(trs, trs \o saved),
                 "ErrStore", ErrTrades(M.trades), done, M.events, "open", M.ops + 1 + nTrades + 1)
      ELSE Out(B2, A2, rows2, trs \o M.trades, "nil", M.trades, done, M.events,
               "committed", M.ops + 1 + nTrades + 1))

\* ---- CancelOrder, from after mutex.Lock to its return statement --------
\* every order may be canceled, whatever its status
NotOpen_Never(order) == FALSE

\* if order.Status != models.StatusOpen (line 330)
NotOpen(order) == order.Status # "open"

\* failAt = 1: GetOrder fails, failAt = 2: UpdateOrder fails
CancelOrder(orderID, failAt, B, A, rows) ==
    LET Out(B1, A1, rows1, err) == [Bids |-> B1, Asks |-> A1, dbOrders |-> rows1, err |-> err]
        order == RepoGetOrder(rows, orderID)
        canceled == [order EXCEPT !.Status = "canceled"]
        levels == IF order.Side = "sell" THEN A[order.Symbol] ELSE B[order.Symbol]
        after == FromSlices(removeFromOrderBook(ToSlices(levels), canceled))
    IN
    IF failAt = 1 THEN Out(B, A, rows, "ErrStore")
    ELSE IF orderID \notin DOMAIN rows THEN Out(B, A, rows, "ErrOrderNotFound")
    ELSE IF NotOpen(order) THEN Out(B, A, rows, "ErrOrderNotOpen")
    ELSE IF failAt = 2 THEN Out(B, A, rows, "ErrStore")
    ELSE IF order.Side = "sell"
      THEN Out(B, [A EXCEPT ![order.Symbol] = after], UpdateOrderTx(rows, canceled), "nil")
      ELSE Out([B EXCEPT ![order.Symbol] = after], A, UpdateOrderTx(rows, canceled), "nil")

\* ---- start-up -----------------------------------------------------------
\* NewMatchingService: the book is built from repo.GetOrderBook("BTC-USD"),
\* the rows taken in primary-key order
RECURSIVE LoadOrders(_, _, _)
LoadOrders(rows, ids, book) ==
    IF ids = {} THEN book
    ELSE
      LET id == CHOOSE i \in ids : \A j \in ids : i <= j
          o == rows[id]
      IN  Eval(IF o.Side = "sell"
                 THEN [book EXCEPT !.Asks[o.Symbol] = addToOrderBook(@, o)]
                 ELSE [book EXCEPT !.Bids[o.Symbol] = addToOrderBook(@, o)],
               LAMBDA book1 : LoadOrders(rows, ids \ {id}, book1))

NewOrderBook == [Bids |-> [s \in Symbols |-> <<>>], Asks |-> [s \in Symbols |-> <<>>]]

NewMatchingService(rows) ==
    LoadOrders(rows,
               {i \in DOMAIN rows : rows[i].Symbol = "BTC-USD" /\ rows[i].Status = "open"},
               NewOrderBook)

\* The stores the service starts on: empty, or holding MaxSeed open limit
\* orders that earlier PlaceOrder calls left resting (one side, so no two
\* of them could have matched): a queue at one price or one per price.
SeedOrder(i, side, price, qty) ==
    [OrderID |-> i, Symbol |-> "BTC-USD", Side |-> side, Type |-> "limit",
     Price |-> ValidPrice(price), InitialQuantity |-> qty,
     RemainingQuantity |-> qty, Status |-> "open", CreatedAt |-> i]

SeedStores ==
    {<<>>} \cup
    {[i \in 1..n |-> SeedOrder(i, side, IF ladder THEN ((i - 1) % MaxPrice) + 1 ELSE 1, q)] :
        n \in {MaxSeed}, side \in Sides, ladder \in BOOLEAN, q \in 1..MaxSeedQty}

\* ---- the state machine ------------------------------------------------
VARIABLES
    Bids,       \* orderBook.Bids: symbol -> levels
    Asks,       \* orderBook.Asks
    dbOrders,   \* table orders (committed): order_id -> row
    dbTrades,   \* table trades (committed), in insertion order
    checks,     \* the store enforces the CHECK constraints of its tables
    mutex,      \* orderBook.mutex: the caller holding it, 0 when free
    pc,         \* where each caller is
    clock,      \* PlaceOrder calls that have run since start-up
    cancels,    \* CancelOrder calls that have run since start-up
    tx,         \* the transaction of the call holding the mutex
    ret         \* what the body of the call holding the mutex returned

vars == <<Bids, Asks, dbOrders, dbTrades, checks, mutex, pc, clock, cancels, tx, ret>>

NoRet == [call |-> "none"]
NoOrder == [OrderID |-> 0]

Init ==
    /\ dbOrders \in SeedStores
    /\ dbTrades = <<>>
    /\ checks \in BOOLEAN
    /\ Bids = NewMatchingService(dbOrders).Bids
    /\ Asks = NewMatchingService(dbOrders).Asks
    /\ mutex = 0
    /\ pc = [c \in Callers |-> "idle"]
    /\ clock = 0
    /\ cancels = 0
    /\ tx = "none"
    /\ ret = NoRet

\* time.Now() of the next PlaceOrder call: later than every CreatedAt so far
Now == MaxSeed + clock + 1

CallsInFlight ==
    Cardinality({c \in Callers : pc[c] \in {"waitPlace", "inPlace", "waitCancel", "inCancel"}})

\* a handler goroutine calls PlaceOrder
CallPlaceOrder(c, calls) ==
    /\ pc[c] = "idle"
    /\ clock + cancels + CallsInFlight < calls
    /\ pc' = [pc EXCEPT ![c] = "waitPlace"]
    /\ UNCHANGED <<checks, Bids, Asks, dbOrders, dbTrades, mutex, clock, cancels, tx, ret>>

\* a handler goroutine calls CancelOrder
CallCancelOrder(c, calls) ==
    /\ pc[c] = "idle"
    /\ clock + cancels + CallsInFlight < calls
    /\ pc' = [pc EXCEPT ![c] = "waitCancel"]
    /\ UNCHANGED <<checks, Bids, Asks, dbOrders, dbTrades, mutex, clock, cancels, tx, ret>>

\* a lock that does not wait for the mutex to be free
Lock_NoWait(c) ==
    /\ pc[c] \in {"waitPlace", "waitCancel"}
    /\ mutex' = c
    /\ pc' = [pc EXCEPT ![c] = IF pc[c] = "waitPlace" THEN "inPlace" ELSE "inCancel"]
    /\ UNCHANGED <<checks, Bids, Asks, dbOrders, dbTrades, clock, cancels, tx, ret>>

\* s.orderBook.mutex.Lock()
Lock(c) ==
    /\ pc[c] \in {"waitPlace", "waitCancel"}
    /\ mutex = 0
    /\ mutex' = c
    /\ pc' = [pc EXCEPT ![c] = IF pc[c] = "waitPlace" THEN "inPlace" ELSE "inCancel"]
    /\ UNCHANGED <<checks, Bids, Asks, dbOrders, dbTrades, clock, cancels, tx, ret>>

Snapshot == [Bids |-> Bids, Asks |-> Asks, dbOrders |-> dbOrders, dbTrades |-> dbTrades]

\* PlaceOrder lines 63-139, for an order drawn from reqs and an id drawn
\* from ids.  The order's fields are first read under the mutex, so the
\* order is drawn here.  ret keeps what the handler reads: the error and,
\* when there is none, the trades and the order; events and pre are
\* history.
PlaceOrderBody(c, reqs, ids) ==
    /\ pc[c] = "inPlace"
    /\ \E req \in reqs, id \in ids :
         \E failAt \in 0..PlaceOrder(req, id, Now, 0, Bids, Asks, dbOrders, dbTrades, checks).ops :
           \E R \in {PlaceOrder(req, id, Now, failAt, Bids, Asks, dbOrders, dbTrades, checks)} :
               /\ Bids' = R.Bids
               /\ Asks' = R.Asks
               /\ dbOrders' = R.dbOrders
               /\ dbTrades' = R.dbTrades
               /\ tx' = R.tx
               /\ ret' = [call |-> "PlaceOrder", err |-> R.err, trades |-> R.trades,
                          order |-> IF R.err = "nil" THEN R.order ELSE NoOrder,
                          events |-> R.events, pre |-> Snapshot]
               /\ pc' = [pc EXCEPT ![c] = IF R.tx = "none" THEN "unlock" ELSE "rollback"]
    /\ clock' = clock + 1
    /\ UNCHANGED <<checks, mutex, cancels>>

\* CancelOrder lines 325-343, for an id drawn from ids
CancelOrderBody(c, ids) ==
    /\ pc[c] = "inCancel"
    /\ \E orderID \in ids, failAt \in 0..2 :
         \E R \in {CancelOrder(orderID, failAt, Bids, Asks, dbOrders)} :
             /\ Bids' = R.Bids
             /\ Asks' = R.Asks
             /\ dbOrders' = R.dbOrders
             /\ ret' = [call |-> "CancelOrder", err |-> R.err, orderID |-> orderID,
                        pre |-> Snapshot]
    /\ pc' = [pc EXCEPT ![c] = "unlock"]
    /\ cancels' = cancels + 1
    /\ UNCHANGED <<checks, dbTrades, mutex, clock, tx>>

\* a return that does not roll back
DeferRollback_Skip(c) ==
    /\ pc[c] = "rollback"
    /\ pc' = [pc EXCEPT ![c] = "unlock"]
    /\ UNCHANGED <<checks, Bids, Asks, dbOrders, dbTrades, mutex, clock, cancels, tx, ret>>

\* defer tx.Rollback(): undoes the writes of an open transaction, does
\* nothing to a committed one
DeferRollback(c) ==
    /\ pc[c] = "rollback"
    /\ tx' = IF tx = "open" THEN "rolledback" ELSE tx
    /\ pc' = [pc EXCEPT ![c] = "unlock"]
    /\ UNCHANGED <<checks, Bids, Asks, dbOrders, dbTrades, mutex, clock, cancels, ret>>

\* a return that leaves the mutex locked
DeferUnlock_KeepLocked(c) ==
    /\ pc[c] = "unlock"
    /\ tx' = "none"
    /\ ret' = NoRet
    /\ pc' = [pc EXCEPT ![c] = "idle"]
    /\ UNCHANGED <<checks, Bids, Asks, dbOrders, dbTrades, mutex, clock, cancels>>

\* defer s.orderBook.mutex.Unlock(); the call returns
DeferUnlock(c) ==
    /\ pc[c] = "unlock"
    /\ mutex' = 0
    /\ tx' = "none"
    /\ ret' = NoRet
    /\ pc' = [pc EXCEPT ![c] = "idle"]
    /\ UNCHANGED <<checks, Bids, Asks, dbOrders, dbTrades, clock, cancels>>

\* every order object the book points to
BookOrders ==
    UNION {OrdersOf(Bids[s]) \cup OrdersOf(Asks[s]) : s \in Symbols}

\* Orders for one symbol.  uuid.New().ID() is a random 32-bit number the
\* code only ever compares for equality: the id drawn is either one no
\* order holds (Now names it), or the id of a stored order or of an order
\* in the book.  CancelOrder is called with any of the same ids.
Requests == RequestsFor({"BTC-USD", ""}, MaxPrice)
RequestsFromEmpty == RequestsFor({"BTC-USD", ""}, MaxPriceFromEmpty)
KnownIDs == {Now} \cup DOMAIN dbOrders \cup {o.OrderID : o \in BookOrders}

Step(c, calls, reqs) ==
    \/ CallPlaceOrder(c, calls)
    \/ CallCancelOrder(c, calls)
    \/ Lock(c)
    \/ PlaceOrderBody(c, reqs, KnownIDs)
    \/ CancelOrderBody(c, KnownIDs)
    \/ DeferRollback(c)
    \/ DeferUnlock(c)

\* handler goroutines running concurrently, on a store that starts empty
InitEmpty == Init /\ dbOrders = <<>>
Next == \E c \in Callers : Step(c, MaxCalls, Requests)
SpecConcurrent == InitEmpty /\ [][Next]_vars

\* Concurrent callers placing orders at one price, when the store answers
\* every request and the mutex is granted fairly: a call that holds the mutex runs on (its loops range
\* over slices, its deferred calls run when it returns), and a caller that
\* waits for the mutex gets it if it is free again and again
Fairness ==
    \A c \in Callers :
        /\ SF_vars(Lock(c))
        /\ WF_vars(PlaceOrderBody(c, RequestsFromEmpty, KnownIDs))
        /\ WF_vars(CancelOrderBody(c, KnownIDs))
        /\ WF_vars(DeferRollback(c))
        /\ WF_vars(DeferUnlock(c))
NextLive == \E c \in Callers : Step(c, MaxCalls, RequestsFromEmpty)
SpecLive == InitEmpty /\ [][NextLive]_vars /\ Fairness

\* one call after the other, on any of the start-up stores
NextSerial == Step(1, MaxCalls, Requests)
Spec == Init /\ [][NextSerial]_vars

\* one call after the other, more of them and at one price, on a store
\* that starts empty
NextFromEmpty == Step(1, MaxCallsFromEmpty, RequestsFromEmpty)
SpecFromEmpty == InitEmpty /\ [][NextFromEmpty]_vars

\* The rows repo.GetOrderBook(symbol) returns: the open orders of the
\* symbol, in an order the query leaves to the store (it has no ORDER BY)
RowsInAnyOrder(rows, symbol) ==
    LET ids == {i \in DOMAIN rows : rows[i].Symbol = symbol /\ rows[i].Status = "open"}
    IN  {[k \in 1..Cardinality(ids) |-> rows[f[k]]] :
            f \in {g \in [1..Cardinality(ids) -> ids] :
                      \A j, k \in 1..Cardinality(ids) : j # k => g[j] # g[k]}}

\* for _, order := range orders { service.addToOrderBook(order) }
RECURSIVE LoadInOrder(_, _)
LoadInOrder(orders, book) ==
    IF orders = <<>> THEN book
    ELSE
      LET o == Head(orders)
      IN  Eval(IF o.Side = "sell"
                 THEN [book EXCEPT !.Asks[o.Symbol] = addToOrderBook(@, o)]
                 ELSE [book EXCEPT !.Bids[o.Symbol] = addToOrderBook(@, o)],
               LAMBDA book1 : LoadInOrder(Tail(orders), book1))

\* The process is stopped while no call is running and started again:
\* NewMatchingService builds a new book from the store.
Restart ==
    /\ \A c \in Callers : pc[c] = "idle"
    /\ \E orders \in RowsInAnyOrder(dbOrders, "BTC-USD") :
         \E book \in {LoadInOrder(orders, NewOrderBook)} :
             /\ Bids' = book.Bids
             /\ Asks' = book.Asks
    /\ ret' = [call |-> "NewMatchingService"]
    /\ UNCHANGED <<checks, dbOrders, dbTrades, mutex, pc, clock, cancels, tx>>

\* one call after the other on both symbols, and restarts, on a store that
\* starts empty
RequestsRestart == RequestsFor(Symbols, MaxPriceFromEmpty)
NextRestart == Step(1, MaxCalls, RequestsRestart) \/ Restart
SpecRestart == InitEmpty /\ [][NextRestart]_vars

\* uuid.New().ID() as a number: the first four bytes of a random UUID,
\* any 32-bit value, here any of MaxID values; CancelOrder is called with
\* any of them too.  One call after the other, on a store that starts
\* empty.
IDs == 1..MaxID
NextIDs ==
    \/ CallPlaceOrder(1, MaxCalls)
    \/ CallCancelOrder(1, MaxCalls)
    \/ Lock(1)
    \/ PlaceOrderBody(1, RequestsFromEmpty, IDs)
    \/ CancelOrderBody(1, IDs)
    \/ DeferRollback(1)
    \/ DeferUnlock(1)
SpecIDs == InitEmpty /\ [][NextIDs]_vars

\* one call after the other on both symbols, each PlaceOrder a limit order
\* of the smallest quantity at one price, on a store that starts empty
RequestsSymbols ==
    {r \in RequestsFor(Symbols, MaxPriceFromEmpty) :
        /\ r.Type = "limit" /\ r.Price.Valid /\ r.Price.Float64 > 0
        /\ r.Quantity \in 1..MaxQtyRace}
NextSymbols == Step(1, MaxCallsFromEmpty, RequestsSymbols)
SpecSymbols == InitEmpty /\ [][NextSymbols]_vars

\* handler goroutines running concurrently, more calls of them, each
\* PlaceOrder a well-formed limit order of the smallest quantity at one
\* price
RequestsRace ==
    {r \in RequestsFor({"BTC-USD"}, MaxPriceFromEmpty) :
        /\ r.Type = "limit" /\ r.Price.Valid /\ r.Price.Float64 > 0
        /\ r.Quantity \in 1..MaxQtyRace}
NextRace == \E c \in Callers : Step(c, MaxCallsRace, RequestsRace)
SpecRace == InitEmpty /\ [][NextRace]_vars

\* ---- properties ----------------------------------------------------------
PlaceReturned == ret.call = "PlaceOrder"
Succeeded == PlaceReturned /\ ret.err = "nil"
Events == IF PlaceReturned THEN {ret.events[i] : i \in 1..Len(ret.events)} ELSE {}
LevelsOf(levels) == {levels[i] : i \in 1..Len(levels)}
QueueOf(level) == {level.Orders[k] : k \in 1..Len(level.Orders)}
HasQuantity(level) == \E o \in QueueOf(level) : o.RemainingQuantity > 0

\* price p is strictly better than q for an incoming order of this side
BetterFor(side, p, q) == IF side = "buy" THEN p < q ELSE p > q
\* a level at price p is marketable for the incoming order
MarketableFor(order, p) ==
    \/ order.Type = "market"
    \/ order.Side = "buy" /\ p <= order.Price.Float64
    \/ order.Side = "sell" /\ p >= order.Price.Float64

\* C1: price priority.  No match of an incoming order is made at a level
\* while a strictly better-priced level that is marketable for the order
\* still holds a resting order with remaining quantity > 0.
C1_PricePriority ==
    \A e \in Events :
        ~\E l \in LevelsOf(e.levels) :
            /\ BetterFor(e.order.Side, l.Price, e.resting.Price.Float64)
            /\ MarketableFor(e.order, l.Price)
            /\ HasQuantity(l)

\* C2: time priority.  A resting order is never matched while an order that
\* arrived earlier at the same price and side is still in the level with
\* remaining quantity > 0.
C2_TimePriority ==
    \A e \in Events :
        \A l \in LevelsOf(e.levels) :
            l.Price = e.resting.Price.Float64 =>
                \A o \in QueueOf(l) :
                    o.CreatedAt < e.resting.CreatedAt => o.RemainingQuantity = 0

\* the book as levels and their queues, whatever the order of the levels
\* in the slice
BookView(B, A) ==
    [s \in Symbols |-> [bids |-> LevelsOf(B[s]), asks |-> LevelsOf(A[s])]]

\* C3: when a store operation of a PlaceOrder call fails, the in-memory book
\* is exactly as it was before the call: the same levels, the same resting
\* orders in the same order, with the same remaining quantity and status.
C3_BookUnchangedOnFailure ==
    (PlaceReturned /\ ret.err = "ErrStore") =>
        BookView(Bids, Asks) = BookView(ret.pre.Bids, ret.pre.Asks)

\* C4: when persistence fails during a PlaceOrder call, the store holds no
\* row of the attempted order, no trade of the call and no change to a
\* resting order: GetOrderBook, GetOrder and GetTrades return what they
\* returned before the call.
C4_StoreUnchangedOnFailure ==
    (PlaceReturned /\ ret.err = "ErrStore") =>
        /\ DOMAIN dbOrders = DOMAIN ret.pre.dbOrders
        /\ \A id \in DOMAIN dbOrders \cup KnownIDs :
               RepoGetOrder(dbOrders, id) = RepoGetOrder(ret.pre.dbOrders, id)
        /\ \A s \in Symbols :
               /\ RepoGetOrderBook(dbOrders, s) = RepoGetOrderBook(ret.pre.dbOrders, s)
               /\ RepoGetTrades(dbTrades, s) = RepoGetTrades(ret.pre.dbTrades, s)

\* a call failed after it had matched, that is after it had written to the
\* store inside its transaction
C4_Witness ==
    PlaceReturned /\ ret.err = "ErrStore" /\ tx = "rolledback" /\ ret.events # <<>>

\* C5: whenever no call holds the mutex, the orders resting in the book are
\* the open limit orders of the store, with the same remaining quantities.
C5_BookMatchesStore ==
    mutex = 0 =>
        {<<o.OrderID, o.RemainingQuantity>> : o \in BookOrders}
        = {<<dbOrders[i].OrderID, dbOrders[i].RemainingQuantity>> :
             i \in {j \in DOMAIN dbOrders :
                      dbOrders[j].Status = "open" /\ dbOrders[j].Type = "limit"}}

\* C6: a resting order that a match fills only in part keeps status open
\* and stays in its price level of the book.
C6_PartialFillKeepsResting ==
    Succeeded =>
        \A e \in Events :
            e.resting.RemainingQuantity - e.Quantity > 0 =>
                \E l \in LevelsOf(Bids[e.resting.Symbol]) \cup LevelsOf(Asks[e.resting.Symbol]) :
                    /\ l.Price = e.resting.Price.Float64
                    /\ \E o \in QueueOf(l) :
                          /\ o.CreatedAt = e.resting.CreatedAt
                          /\ o.Status = "open"
                          /\ o.RemainingQuantity = e.resting.RemainingQuantity - e.Quantity

RECURSIVE TradedQuantity(_, _)
TradedQuantity(trades, id) ==
    IF trades = <<>> THEN 0
    ELSE (IF id \in {Head(trades).BuyOrderID, Head(trades).SellOrderID}
            THEN Head(trades).Quantity ELSE 0)
         + TradedQuantity(Tail(trades), id)

\* C7: quantity conservation.  For every stored order the quantities of the
\* trades that reference it plus its remaining quantity make its initial
\* quantity; and a trade's quantity is at most the remaining quantity of
\* either participant just before the match.
C7_QuantityConservation ==
    /\ mutex = 0 =>
         \A id \in DOMAIN dbOrders :
             TradedQuantity(dbTrades, id) + dbOrders[id].RemainingQuantity
             = dbOrders[id].InitialQuantity
    /\ \A e \in Events :
         e.Quantity <= e.order.RemainingQuantity /\ e.Quantity <= e.resting.RemainingQuantity

InRange(o) == 0 <= o.RemainingQuantity /\ o.RemainingQuantity <= o.InitialQuantity

\* C8: every order, in the book, in the store and returned, has
\* 0 <= remaining <= initial, and no match executes more than either
\* participant has left.
C8_RemainingInRange ==
    /\ \A o \in BookOrders : InRange(o)
    /\ \A id \in DOMAIN dbOrders : InRange(dbOrders[id])
    /\ Succeeded => InRange(ret.order)
    /\ \A e \in Events :
         /\ InRange(e.order) /\ InRange(e.resting)
         /\ 0 <= e.Quantity
         /\ e.Quantity <= e.order.RemainingQuantity
         /\ e.Quantity <= e.resting.RemainingQuantity

\* C9: market orders never rest.  No market order is in a level of the
\* book, and a stored market order is filled or canceled, so GetOrderBook
\* never returns one.
C9_MarketNeverRests ==
    /\ \A o \in BookOrders : o.Type # "market"
    /\ \A id \in DOMAIN dbOrders :
         dbOrders[id].Type = "market" => dbOrders[id].Status \in {"filled", "canceled"}
    /\ \A s \in Symbols : \A o \in RepoGetOrderBook(dbOrders, s) : o.Type # "market"

\* C10: a market order that returns canceled has remaining quantity > 0 and
\* leaves no resting order with remaining quantity > 0 on the opposite side
\* of its symbol; otherwise it returns filled with remaining quantity 0.
C10_MarketCanceledOnlyWhenExhausted ==
    (Succeeded /\ ret.order.Type = "market") =>
        IF ret.order.Status = "canceled"
          THEN /\ ret.order.RemainingQuantity > 0
               /\ \A l \in LevelsOf(IF ret.order.Side = "buy"
                                      THEN Asks[ret.order.Symbol]
                                      ELSE Bids[ret.order.Symbol]) : ~HasQuantity(l)
          ELSE ret.order.Status = "filled" /\ ret.order.RemainingQuantity = 0

\* C11: every trade is struck at the price of the resting order it was
\* matched against, whether the incoming order is a limit or a market
\* order: the trades a call returns, one per match and in the order of the
\* matches, carry the resting orders' prices, and these are the trades the
\* call added to the store.
C11_TradeAtRestingPrice ==
    Succeeded =>
        /\ Len(ret.trades) = Len(ret.events)
        /\ \A i \in 1..Len(ret.trades) :
               ret.trades[i].Price = ret.events[i].resting.Price.Float64
        /\ dbTrades = ret.pre.dbTrades \o ret.trades

\* a limit order traded at a price other than its own limit
C11_Witness ==
    Succeeded /\ \E i \in 1..Len(ret.trades) :
        /\ ret.events[i].order.Type = "limit"
        /\ ret.events[i].order.Price.Float64 # ret.trades[i].Price
        /\ ret.trades[i].Quantity > 0

\* C12: in every stored trade buy_order_id is the id of a stored order of
\* side buy and sell_order_id the id of a stored order of side sell,
\* whichever of the two was the incoming order; the two ids differ and both
\* orders have the symbol of the trade.
C12_TradeSides ==
    \A i \in 1..Len(dbTrades) :
        LET t == dbTrades[i]
            buy == RepoGetOrder(dbOrders, t.BuyOrderID)
            sell == RepoGetOrder(dbOrders, t.SellOrderID)
        IN  /\ buy # NoRow /\ buy.Side = "buy" /\ buy.Symbol = t.Symbol
            /\ sell # NoRow /\ sell.Side = "sell" /\ sell.Symbol = t.Symbol
            /\ t.BuyOrderID # t.SellOrderID

\* the levels opposite to an order, in a book B, A
OppositeOf(order, B, A) ==
    LevelsOf(IF order.Side = "sell" THEN B[order.Symbol] ELSE A[order.Symbol])

\* C13: a limit order never trades through its limit.  A buy limit order
\* at price P is matched only with asks at a price <= P, a sell limit order
\* only with bids at a price >= P; and a limit order for which no level of
\* the opposite side is marketable produces no trade.
C13_NoTradeThrough ==
    /\ \A e \in Events :
         e.order.Type = "limit" =>
             /\ e.order.Side = "buy" => e.resting.Price.Float64 <= e.order.Price.Float64
             /\ e.order.Side = "sell" => e.resting.Price.Float64 >= e.order.Price.Float64
    /\ (Succeeded /\ ret.order.Type = "limit"
         /\ \A l \in OppositeOf(ret.order, ret.pre.Bids, ret.pre.Asks) :
                ~MarketableFor(ret.order, l.Price))
        => ret.trades = <<>> /\ ret.events = <<>>

\* a limit order traded, has quantity left and rests, while the opposite
\* side still holds quantity at a price beyond its limit
C13_Witness ==
    /\ Succeeded /\ ret.order.Type = "limit" /\ ret.trades # <<>>
    /\ ret.order.RemainingQuantity > 0
    /\ \E l \in OppositeOf(ret.order, Bids, Asks) :
          HasQuantity(l) /\ ~MarketableFor(ret.order, l.Price)

CancelReturned == ret.call = "CancelOrder"

\* C14: CancelOrder of an id the store holds no order for fails with
\* ErrOrderNotFound; CancelOrder of an order that is filled or canceled
\* fails with ErrOrderNotOpen, so a second cancel of an order fails; both
\* leave the book and the store as they were (the store answering the
\* lookup).
C14_CancelRejected ==
    CancelReturned =>
        LET row == RepoGetOrder(ret.pre.dbOrders, ret.orderID)
        IN  /\ (row = NoRow /\ ret.err # "ErrStore") => ret.err = "ErrOrderNotFound"
            /\ (row # NoRow /\ row.Status \in {"filled", "canceled"} /\ ret.err # "ErrStore")
                   => ret.err = "ErrOrderNotOpen"
            /\ ret.err \in {"ErrOrderNotFound", "ErrOrderNotOpen"} =>
                   /\ Bids = ret.pre.Bids /\ Asks = ret.pre.Asks
                   /\ dbOrders = ret.pre.dbOrders /\ dbTrades = ret.pre.dbTrades

\* the second cancel of a limit order, with other orders resting
C14_Witness ==
    /\ CancelReturned /\ ret.err = "ErrOrderNotOpen"
    /\ ret.pre.dbOrders[ret.orderID].Type = "limit"
    /\ ret.pre.dbOrders[ret.orderID].Status = "canceled"
    /\ BookOrders # {}

\* the stored order was canceled by CancelOrder: PlaceOrder cancels market
\* orders only
CanceledByCall(rows, id) ==
    /\ id \in DOMAIN rows
    /\ rows[id].Type = "limit" /\ rows[id].Status = "canceled"

\* C15: a successful CancelOrder leaves the stored order canceled and no
\* order of that id in a level of the book, and no level of the book empty;
\* and no later PlaceOrder makes a trade with an order that CancelOrder had
\* canceled before the call.
C15_CancelTakesEffect ==
    /\ (CancelReturned /\ ret.err = "nil") =>
         /\ dbOrders[ret.orderID].Status = "canceled"
         /\ \A o \in BookOrders : o.OrderID # ret.orderID
         /\ \A s \in Symbols : \A l \in LevelsOf(Bids[s]) \cup LevelsOf(Asks[s]) :
                l.Orders # <<>>
    /\ Succeeded =>
         \A e \in Events : ~CanceledByCall(ret.pre.dbOrders, e.resting.OrderID)

\* C16: CancelOrder(o) and a PlaceOrder marketable against o, called
\* concurrently, never both take effect on o.  No successful PlaceOrder
\* trades with an order that a CancelOrder had already canceled; a resting
\* order that a successful PlaceOrder fills is stored filled, so that a
\* later CancelOrder of it fails; and CancelOrder runs only while it holds
\* the mutex, never inside a match of another caller.
C16_CancelOrMatch ==
    /\ Succeeded =>
         \A e \in Events :
             /\ ~CanceledByCall(ret.pre.dbOrders, e.resting.OrderID)
             /\ (e.resting.RemainingQuantity = e.Quantity /\ e.Quantity > 0) =>
                    NotOpen(RepoGetOrder(dbOrders, e.resting.OrderID))
    /\ \A c \in Callers : pc[c] \in {"inPlace", "inCancel", "rollback", "unlock"} => mutex = c

\* a request with an empty symbol, a quantity <= 0, or of type limit with
\* no price or a price <= 0
Malformed(req) ==
    \/ req.Symbol = ""
    \/ req.Quantity <= 0
    \/ req.Type = "limit" /\ (~req.Price.Valid \/ req.Price.Float64 <= 0)

\* C17: wherever a caller is about to run PlaceOrder, PlaceOrder of a
\* malformed request returns ErrInvalidOrder without having begun a
\* transaction, even when BeginTx would have failed, returns no trade and
\* leaves the book and the store unchanged; and a
\* call that returned ErrInvalidOrder has no transaction and changed
\* nothing.
C17_InvalidRejected ==
    /\ (\E c \in Callers : pc[c] = "inPlace") =>
       \A req \in Requests : Malformed(req) =>
         \A id \in KnownIDs, failAt \in 0..1 :
             \E R \in {PlaceOrder(req, id, Now, failAt, Bids, Asks, dbOrders, dbTrades, checks)} :
                 /\ R.err = "ErrInvalidOrder" /\ R.tx = "none" /\ R.ops = 0
                 /\ R.trades = <<>>
                 /\ R.Bids = Bids /\ R.Asks = Asks
                 /\ R.dbOrders = dbOrders /\ R.dbTrades = dbTrades
    /\ (PlaceReturned /\ ret.err = "ErrInvalidOrder") =>
         /\ tx = "none" /\ ret.trades = <<>>
         /\ Bids = ret.pre.Bids /\ Asks = ret.pre.Asks
         /\ dbOrders = ret.pre.dbOrders /\ dbTrades = ret.pre.dbTrades

\* a call was rejected as invalid while orders were resting
C17_Witness ==
    PlaceReturned /\ ret.err = "ErrInvalidOrder" /\ BookOrders # {} /\ dbOrders # <<>>

\* the callers between mutex.Lock() and the deferred mutex.Unlock()
InSection == {c \in Callers : pc[c] \in {"inPlace", "inCancel", "rollback", "unlock"}}

\* C18: at most one PlaceOrder or CancelOrder call is between taking and
\* releasing the mutex, and it is the holder; a transaction exists and a
\* call has returned a result only while the mutex is held; and every step
\* that changes the book or the store is the step of the holder, made
\* between Lock and Unlock, so that no other caller reads the book between
\* a call's change to it and the end of that call's transaction.
C18_MutualExclusion ==
    /\ [](/\ Cardinality(InSection) <= 1
          /\ \A c \in InSection : mutex = c
          /\ (tx # "none" \/ ret # NoRet) => InSection # {})
    /\ [][(<<Bids, Asks, dbOrders, dbTrades, tx>> # <<Bids, Asks, dbOrders, dbTrades, tx>>')
            => /\ mutex # 0 /\ mutex' \in {mutex, 0}
               /\ InSection = {mutex}
               /\ \A c \in Callers \ {mutex} : pc'[c] = pc[c]]_vars

\* a call has committed and still holds the mutex while the other caller
\* waits for it
C18_Witness ==
    \E c \in Callers, d \in Callers :
        /\ c # d /\ mutex = c /\ pc[c] = "rollback" /\ tx = "committed"
        /\ pc[d] \in {"waitPlace", "waitCancel"}
        /\ BookOrders # {}

\* C19: a PlaceOrder call that returns an error returns no trade, also when
\* it had matched before the store failed.
C19_NoTradesOnError ==
    (PlaceReturned /\ ret.err # "nil") => ret.trades = <<>>

\* a call that had matched returns an error; its transaction is still to be
\* rolled back
C19_Witness ==
    /\ PlaceReturned /\ ret.err = "ErrStore" /\ tx = "open"
    /\ \E i \in 1..Len(ret.events) : ret.events[i].Quantity > 0

\* the book holds the stored order, as stored, in the level of its price on
\* its side
InBook(row) ==
    \E l \in LevelsOf(IF row.Side = "sell" THEN Asks[row.Symbol] ELSE Bids[row.Symbol]) :
        /\ l.Price = row.Price.Float64
        /\ \E o \in QueueOf(l) : o = row

\* C20: start-up recovery.  After NewMatchingService the book holds every
\* open order of the store, of every symbol, in the level of its stored
\* price on its stored side, and the orders of a level are queued in the
\* order of their creation times.
C20_StartupRecovery ==
    ret.call = "NewMatchingService" =>
        /\ \A id \in DOMAIN dbOrders : dbOrders[id].Status = "open" => InBook(dbOrders[id])
        /\ \A s \in Symbols : \A l \in LevelsOf(Bids[s]) \cup LevelsOf(Asks[s]) :
               \A j, k \in 1..Len(l.Orders) :
                   j < k => l.Orders[j].CreatedAt <= l.Orders[k].CreatedAt

\* C21: the id of an order that PlaceOrder placed is the id of no earlier
\* order, stored or resting, and is greater than the id of every order
\* placed before it.
C21_IdsUniqueAndIncreasing ==
    Succeeded =>
        /\ ret.order.OrderID \notin DOMAIN ret.pre.dbOrders
        /\ \A s \in Symbols :
               \A o \in OrdersOf(ret.pre.Bids[s]) \cup OrdersOf(ret.pre.Asks[s]) :
                   o.OrderID # ret.order.OrderID
        /\ \A id \in DOMAIN ret.pre.dbOrders : id < ret.order.OrderID

\* C22: no call suspends for ever.  When the store answers and the mutex is
\* granted fairly, every PlaceOrder and CancelOrder call that was made
\* returns, whether it succeeds or fails, and the mutex, once taken, is
\* released again.
C22_CallsReturn ==
    /\ \A c \in Callers : (pc[c] # "idle") ~> (pc[c] = "idle")
    /\ (mutex # 0) ~> (mutex = 0)

\* a caller waits for the mutex while the call holding it is returning a
\* store error
C22_Witness ==
    \E c \in Callers, d \in Callers :
        /\ c # d /\ mutex = c /\ pc[c] \in {"rollback", "unlock"}
        /\ PlaceReturned /\ ret.err = "ErrStore"
        /\ pc[d] \in {"waitPlace", "waitCancel"}

\* C23: every trade PlaceOrder makes has a quantity > 0: the trades a call
\* returns, the trades in the store, and every match the matching loops
\* make; no match is made with a resting order whose remaining quantity is
\* 0.
C23_TradeQuantityPositive ==
    /\ PlaceReturned => \A i \in 1..Len(ret.trades) : ret.trades[i].Quantity > 0
    /\ \A i \in 1..Len(dbTrades) : dbTrades[i].Quantity > 0
    /\ \A e \in Events : e.Quantity > 0 /\ e.resting.RemainingQuantity > 0

\* C24: a call changes the stored status of an order only from open to
\* filled or from open to canceled; it changes neither the status nor the
\* remaining quantity of an order stored as filled or canceled; and it
\* never increases a stored remaining quantity.  (The store changes only in
\* the step of a call, from ret.pre.dbOrders to dbOrders.)
C24_StatusMonotone ==
    (PlaceReturned \/ CancelReturned) =>
        \A id \in DOMAIN ret.pre.dbOrders :
            /\ id \in DOMAIN dbOrders
            /\ dbOrders[id].RemainingQuantity <= ret.pre.dbOrders[id].RemainingQuantity
            /\ NotOpen(ret.pre.dbOrders[id]) =>
                   /\ dbOrders[id].Status = ret.pre.dbOrders[id].Status
                   /\ dbOrders[id].RemainingQuantity = ret.pre.dbOrders[id].RemainingQuantity

\* the levels of one side of a symbol are well formed: every order of a
\* level is an open limit order of that side with remaining quantity > 0
\* and the level's price, no level is empty, no two levels have one price
WellFormedSide(levels, side) ==
    /\ \A i \in 1..Len(levels) :
         /\ levels[i].Orders # <<>>
         /\ \A o \in QueueOf(levels[i]) :
                /\ o.Status = "open" /\ o.RemainingQuantity > 0 /\ o.Type = "limit"
                /\ o.Price.Valid /\ o.Price.Float64 = levels[i].Price
                /\ o.Side = side
    /\ \A i, j \in 1..Len(levels) : i # j => levels[i].Price # levels[j].Price

\* C25: whenever no call holds the mutex, both sides of every symbol of the
\* book are well formed.
C25_BookWellFormed ==
    mutex = 0 =>
        \A s \in Symbols : WellFormedSide(Bids[s], "buy") /\ WellFormedSide(Asks[s], "sell")

\* the queue of the level at price p among levels, empty if there is none
QueueAt(levels, p) ==
    IF p \in PricesOf(levels) THEN LevelAt(levels, p).Orders ELSE <<>>

\* the levels of the order's own side of its symbol, in a book B, A
OwnSideOf(order, B, A) ==
    IF order.Side = "sell" THEN A[order.Symbol] ELSE B[order.Symbol]

\* C26: after a successful PlaceOrder of a limit order: if the order has
\* remaining quantity > 0 it is open and the queue at its price on its own
\* side is the queue as it was before the call with the order appended, so
\* the order is there once, behind every order that was resting at that
\* price; if its remaining quantity is 0 it is filled and the book does
\* not hold it.
C26_LimitRestsAtTail ==
    (Succeeded /\ ret.order.Type = "limit") =>
        IF ret.order.RemainingQuantity > 0
          THEN /\ ret.order.Status = "open"
               /\ QueueAt(OwnSideOf(ret.order, Bids, Asks), ret.order.Price.Float64)
                  = Append(QueueAt(OwnSideOf(ret.order, ret.pre.Bids, ret.pre.Asks),
                                   ret.order.Price.Float64),
                           ret.order)
               /\ \A l \in OppositeOf(ret.order, Bids, Asks) :
                      \A o \in QueueOf(l) : o # ret.order
          ELSE /\ ret.order.Status = "filled" /\ ret.order.RemainingQuantity = 0
               /\ \A o \in BookOrders : o # ret.order

\* a limit order traded in part and rests behind an order that was already
\* resting at its price
C26_Witness ==
    /\ Succeeded /\ ret.order.Type = "limit" /\ ret.trades # <<>>
    /\ ret.order.RemainingQuantity > 0
    /\ Len(QueueAt(OwnSideOf(ret.order, Bids, Asks), ret.order.Price.Float64)) >= 2

\* C27: rollback, then release.  A call that is about to release the mutex
\* has no open transaction, and no step releases the mutex while the
\* transaction of the call is open: a PlaceOrder that failed after BeginTx
\* has rolled back before it unlocks.
C27_RollbackThenRelease ==
    /\ [](\A c \in Callers : pc[c] = "unlock" => tx # "open")
    /\ [][(mutex # 0 /\ mutex' = 0) => tx \in {"none", "rolledback", "committed"}]_vars

\* a failed PlaceOrder has rolled back and still holds the mutex, which
\* another caller waits for
C27_Witness ==
    \E c \in Callers, d \in Callers :
        /\ c # d /\ mutex = c /\ pc[c] = "unlock" /\ tx = "rolledback"
        /\ ret.err = "ErrStore"
        /\ pc[d] \in {"waitPlace", "waitCancel"}

\* the prices of the levels of a side that hold an order with remaining
\* quantity > 0
RestingPrices(levels) == {l.Price : l \in {x \in LevelsOf(levels) : HasQuantity(x)}}

\* C28: after a successful PlaceOrder no symbol of the book is crossed:
\* every bid price with quantity resting is strictly less than every ask
\* price with quantity resting.
C28_BookNotCrossed ==
    Succeeded =>
        \A s \in Symbols :
            \A b \in RestingPrices(Bids[s]), a \in RestingPrices(Asks[s]) : b < a

\* the symbols whose bid or ask levels the last call changed
ChangedSymbols ==
    {s \in Symbols : Bids[s] # ret.pre.Bids[s] \/ Asks[s] # ret.pre.Asks[s]}

\* C29: cross-symbol isolation.  A successful PlaceOrder changes the levels
\* of its own symbol only, a failed one of at most one symbol, and
\* CancelOrder only those of the symbol of the stored order; every match
\* is between orders of one symbol and its trade carries that symbol; and
\* the two stored orders a stored trade names have the symbol of the trade.
C29_SymbolIsolation ==
    /\ Succeeded => ChangedSymbols \subseteq {ret.order.Symbol}
    /\ PlaceReturned => Cardinality(ChangedSymbols) <= 1
    /\ CancelReturned =>
         ChangedSymbols \subseteq
             {RepoGetOrder(ret.pre.dbOrders, ret.orderID).Symbol : x \in
                 {ret.orderID} \cap DOMAIN ret.pre.dbOrders}
    /\ \A e \in Events : e.resting.Symbol = e.order.Symbol
    /\ Succeeded => \A i \in 1..Len(ret.trades) : ret.trades[i].Symbol = ret.order.Symbol
    /\ \A i \in 1..Len(dbTrades) :
         \A id \in {dbTrades[i].BuyOrderID, dbTrades[i].SellOrderID} :
             id \in DOMAIN dbOrders /\ dbOrders[id].Symbol = dbTrades[i].Symbol

====
